---- MODULE Spec2Model ----
(***************************************************************************)
(* Schema-to-storage-model compiler of emannotationschemas (models.py):    *)
(* the table dict builder (create_table_dict, validate_metadata,           *)
(* add_column), the schema splitter, the process-wide ModelStore and the   *)
(* compile entry points built on it.                                       *)
(***************************************************************************)
EXTENDS Integers, Sequences, FiniteSets, TLC

VARIABLES
    sqlalchemy_models,  \* the module-level ModelStore: [container, flat_container]
    objects,            \* number of model classes created so far by type(...)
    log,                \* history: the completed calls, oldest first
    table_call,         \* one create_table_dict application: [args, result, done]
    threads             \* concurrent callers of make_model_from_schema

vars == <<sqlalchemy_models, objects, log, table_call, threads>>

(***************************************************************************)
(* Bounds of the model.                                                    *)
(***************************************************************************)
MaxFields == 2      \* declared fields of a schema drawn for create_table_dict
MaxCalls == 2       \* sequential compile requests in one behaviour
MaxPairs == 2       \* (schema name, table name) pairs of one dataset call
MaxThreads == 2     \* concurrent callers

(***************************************************************************)
(* Python values.  Optional[str] is a sequence of length 0 (None) or 1.    *)
(* A dict is the sequence of its items [key, val] in insertion order.      *)
(***************************************************************************)
None == <<>>
Some(x) == <<x>>

\* truth value of an Optional[str]: None and "" are falsy
Truthy(opt) == opt # None /\ opt[1] # ""

\* Body applied to the value of v, v evaluated once (a local variable assignment)
Let(v, Body(_)) == CHOOSE y \in {Body(x) : x \in {v}} : TRUE

EmptyDict == <<>>

Keys(d) == {d[i].key : i \in 1..Len(d)}

HasKey(d, k) == k \in Keys(d)

IndexOf(d, k) == CHOOSE i \in 1..Len(d) : d[i].key = k

GetItem(d, k) == d[IndexOf(d, k)].val

\* d[k] = v: an existing key keeps its position, a new key is appended
SetItem(d, k, v) ==
    IF HasKey(d, k)
    THEN [i \in 1..Len(d) |-> IF d[i].key = k THEN [key |-> k, val |-> v] ELSE d[i]]
    ELSE Append(d, [key |-> k, val |-> v])

\* d without key k (the dict after d.pop(k))
DelItem(d, k) == SelectSeq(d, LAMBDA e : e.key # k)

RECURSIVE Update(_, _)
\* d.update(items), items in the order of the dict literal
Update(d, items) ==
    IF items = <<>> THEN d
    ELSE Let(SetItem(d, Head(items).key, Head(items).val),
             LAMBDA updated : Update(updated, Tail(items)))

\* outcome of a call: exc = "" when it returned val, else the exception raised
Return(v) == [exc |-> "", val |-> v]
Raise(e) == [exc |-> e, val |-> EmptyDict]

(***************************************************************************)
(* sqlalchemy values                                                       *)
(***************************************************************************)
Str(s) == [kind |-> "str", str |-> s]

NoGeometry == [geometry_type |-> "", dimension |-> 0, use_N_D_index |-> FALSE]

\* Column(type, ForeignKey(fk)?, primary_key=, index=, nullable=)
Column(type, fk, primary_key, index, nullable, geometry) ==
    [kind |-> "Column", type |-> type, foreign_key |-> fk,
     primary_key |-> primary_key, index |-> index, nullable |-> nullable,
     geometry |-> geometry]

\* str(value) as an f-string formats it: a Column not yet bound to a name
\* prints as "(no name)"
Format(v) == IF v.kind = "str" THEN v.str ELSE "(no name)"

MapperArgs(identity) ==
    [kind |-> "mapper_args", polymorphic_identity |-> identity, concrete |-> TRUE]

\* field_column_map: marshmallow field type -> sqlalchemy column type
field_column_map ==
    [t \in {"ReferenceTableField", "NumericField", "PostGISField", "Int",
            "Integer", "Float", "Str", "String", "Bool", "Boolean"} |->
        CASE t \in {"ReferenceTableField", "NumericField"} -> "BigInteger"
          [] t = "PostGISField" -> "Geometry"
          [] t \in {"Int", "Integer"} -> "Integer"
          [] t = "Float" -> "Float"
          [] t \in {"Str", "String"} -> "String"
          [] t \in {"Bool", "Boolean"} -> "Boolean"]

\* MetaDataTypes.REFERENCE.value
REFERENCE == "reference"

(***************************************************************************)
(* A declared marshmallow field: its class and the metadata keys read by   *)
(* models.py.  nested holds the sub-schema's fields of a Nested field.     *)
(***************************************************************************)
Field(type, drop_column, segmentation_field, metadata, index) ==
    [type |-> type, drop_column |-> drop_column,
     segmentation_field |-> segmentation_field, metadata |-> metadata,
     index |-> index, postgis_geometry |-> None, nested |-> <<>>]

\* table_metadata argument: None, or a dict with or without "reference_table"
NotADict == [is_dict |-> FALSE, reference_table |-> None]
MetaDict(ref) == [is_dict |-> TRUE, reference_table |-> ref]

validate_metadata(model, field, table_metadata) ==
    IF field.metadata = Some(REFERENCE)
    THEN IF ~table_metadata.is_dict
         THEN Raise("InvalidTableMetaDataException")
         ELSE IF table_metadata.reference_table = None
              THEN Raise("InvalidTableMetaDataException")
              ELSE Return(SetItem(model, "reference_table_name",
                                  Str(table_metadata.reference_table[1])))
    ELSE Return(model)

add_column(model, key, field) ==
    LET field_type == field.type
        has_index == field.index
    IN  IF field_type \in DOMAIN field_column_map
        THEN IF field_type = "PostGISField"
             THEN LET postgis_geom == IF field.postgis_geometry = None
                                      THEN "POINTZ"
                                      ELSE field.postgis_geometry[1]
                  IN  Return(SetItem(model, key,
                          Column("Geometry", None, FALSE, FALSE, TRUE,
                                 [geometry_type |-> postgis_geom, dimension |-> 3,
                                  use_N_D_index |-> has_index])))
             ELSE IF field_type = "ReferenceTableField"
             THEN IF ~HasKey(model, "reference_table_name")
                  THEN Raise("KeyError")
                  ELSE LET reference_table_name ==
                               Format(GetItem(model, "reference_table_name"))
                       IN  Return(SetItem(DelItem(model, "reference_table_name"), key,
                               Column("BigInteger",
                                      Some(reference_table_name \o ".id"),
                                      FALSE, has_index, TRUE, NoGeometry)))
             ELSE Return(SetItem(model, key,
                     Column(field_column_map[field_type], None, FALSE, has_index,
                            TRUE, NoGeometry)))
        ELSE Raise("InvalidSchemaField")

\* lines 259-283: the table name, identity column and mapper args
TableHeader(table_name, segmentation_source) ==
    IF Truthy(segmentation_source)
    THEN Update(EmptyDict, <<
            [key |-> "__tablename__",
             val |-> Str(table_name \o "__" \o segmentation_source[1])],
            [key |-> "id",
             val |-> Column("BigInteger", Some(table_name \o ".id"), TRUE, FALSE,
                            TRUE, NoGeometry)],
            [key |-> "__mapper_args__",
             val |-> MapperArgs(table_name \o "__" \o segmentation_source[1])]>>)
    ELSE Update(EmptyDict, <<
            [key |-> "__tablename__", val |-> Str(table_name)],
            [key |-> "id",
             val |-> Column("BigInteger", None, TRUE, FALSE, TRUE, NoGeometry)],
            [key |-> "__mapper_args__", val |-> MapperArgs(table_name)]>>)

\* lines 284-291
CrudColumns ==
    <<[key |-> "created",
       val |-> Column("DateTime", None, FALSE, TRUE, FALSE, NoGeometry)],
      [key |-> "deleted",
       val |-> Column("DateTime", None, FALSE, TRUE, TRUE, NoGeometry)],
      [key |-> "superceded_id",
       val |-> Column("BigInteger", None, FALSE, FALSE, TRUE, NoGeometry)]>>

RECURSIVE FieldLoop(_, _, _)
\* lines 293-296: the loop over Schema._declared_fields.items()
FieldLoop(model, fields, table_metadata) ==
    IF fields = <<>> THEN Return(model)
    ELSE LET key == Head(fields).key
             field == Head(fields).field
         IN  IF field.drop_column
             THEN FieldLoop(model, Tail(fields), table_metadata)
             ELSE Let(validate_metadata(model, field, table_metadata),
                      LAMBDA validated :
                        IF validated.exc # "" THEN validated
                        ELSE Let(add_column(validated.val, key, field),
                                 LAMBDA added :
                                   IF added.exc # "" THEN added
                                   ELSE FieldLoop(added.val, Tail(fields),
                                                  table_metadata)))

create_table_dict(table_name, Schema, segmentation_source, table_metadata, with_crud_columns) ==
    Let(TableHeader(table_name, segmentation_source),
        LAMBDA header :
          Let(IF with_crud_columns THEN Update(header, CrudColumns) ELSE header,
              LAMBDA model : FieldLoop(model, Schema.fields, table_metadata)))

(***************************************************************************)
(* Schemas.  A schema is [name, fields]; fields is the ordered dict        *)
(* _declared_fields as a sequence of [key, field].                         *)
(***************************************************************************)
Nested(sub) ==
    [type |-> "Nested", drop_column |-> FALSE, segmentation_field |-> FALSE,
     metadata |-> None, index |-> FALSE, postgis_geometry |-> None,
     nested |-> sub.fields]

\* schemas.base.BoundSpatialPoint
BoundSpatialPoint ==
    [name |-> "BoundSpatialPoint",
     fields |-> <<
        [key |-> "position",
         field |-> [Field("PostGISField", FALSE, FALSE, None, TRUE)
                       EXCEPT !.postgis_geometry = Some("POINTZ")]],
        [key |-> "supervoxel_id",
         field |-> Field("NumericField", FALSE, TRUE, None, FALSE)],
        [key |-> "root_id",
         field |-> Field("NumericField", FALSE, TRUE, None, TRUE)]>>]

\* cell_type_local.CellTypeLocal
CellTypeLocal ==
    [name |-> "CellTypeLocal",
     fields |-> <<
        [key |-> "classification_system",
         field |-> Field("String", FALSE, FALSE, None, FALSE)],
        [key |-> "cell_type", field |-> Field("String", FALSE, FALSE, None, FALSE)],
        [key |-> "confidence", field |-> Field("Float", FALSE, FALSE, None, FALSE)],
        [key |-> "pt", field |-> Nested(BoundSpatialPoint)]>>]

\* schemas.base.ReferenceAnnotation: the target id carries metadata="reference"
ReferenceAnnotation ==
    [name |-> "ReferenceAnnotation",
     fields |-> <<
        [key |-> "target_id",
         field |-> Field("ReferenceTableField", FALSE, FALSE, Some(REFERENCE),
                         FALSE)]>>]

\* a caller's schema whose ReferenceTableField declares no metadata kind
PlainReference ==
    [name |-> "PlainReference",
     fields |-> <<
        [key |-> "target_id",
         field |-> Field("ReferenceTableField", FALSE, FALSE, None, FALSE)]>>]

\* schemas.contact.Contact
Contact ==
    [name |-> "Contact",
     fields |-> <<
        [key |-> "size", field |-> Field("NumericField", FALSE, FALSE, None, FALSE)],
        [key |-> "sidea_pt", field |-> Nested(BoundSpatialPoint)],
        [key |-> "sideb_pt", field |-> Nested(BoundSpatialPoint)]>>]

\* emannotationschemas.type_mapping: schema type name -> schema
type_mapping ==
    [t \in {"cell_type_local", "reference"} |->
        IF t = "cell_type_local" THEN CellTypeLocal ELSE ReferenceAnnotation]

get_types == DOMAIN type_mapping

get_schema(schema_type) == type_mapping[schema_type]

RECURSIVE FlattenFields(_)
\* flatten.flatten_fields: a Nested field is replaced by its sub-schema's
\* fields, each renamed <parent>_<sub>
FlattenFields(fields) ==
    IF fields = <<>> THEN <<>>
    ELSE LET key == Head(fields).key
             field == Head(fields).field
         IN  (IF field.type = "Nested"
              THEN [i \in 1..Len(field.nested) |->
                       [key |-> key \o "_" \o field.nested[i].key,
                        field |-> field.nested[i].field]]
              ELSE <<Head(fields)>>) \o FlattenFields(Tail(fields))

create_flattened_schema(Schema) ==
    [name |-> Schema.name, fields |-> FlattenFields(Schema.fields)]

convert_dict_to_schema(schema_name, schema_dict) ==
    [name |-> "Flat" \o schema_name, fields |-> schema_dict]

\* returns <<flat_annotation_schema, flat_segmentation_schema>> or raises
split_annotation_schema(Schema) ==
    Let(create_flattened_schema(Schema),
        LAMBDA flat_schema :
          LET fields == flat_schema.fields
              annotation_columns ==
                  SelectSeq(fields, LAMBDA e : ~e.field.segmentation_field)
              segmentation_columns ==
                  SelectSeq(fields, LAMBDA e : e.field.segmentation_field)
          IN  IF \E i \in 1..Len(fields) : fields[i].field.type = "Nested"
              THEN [exc |-> "Exception", val |-> <<>>]
              ELSE [exc |-> "",
                    val |-> <<convert_dict_to_schema(Schema.name \o "_annotation",
                                                     annotation_columns),
                              convert_dict_to_schema(Schema.name \o "_segmentation",
                                                     segmentation_columns)>>])

(***************************************************************************)
(* Model classes.  type(name, (Base,), table_dict) creates a new class     *)
(* object; oid is its identity.                                            *)
(***************************************************************************)
NoModel == [oid |-> 0, name |-> "", bases |-> "", dict |-> EmptyDict]

Type(oid, name, bases, dict) ==
    [oid |-> oid, name |-> name, bases |-> bases, dict |-> dict]

\* returns the model class with identity oid, or raises
create_sqlalchemy_model(oid, table_name, Schema, segmentation_source, table_metadata, with_crud_columns) ==
    Let(create_table_dict(table_name, Schema, segmentation_source, table_metadata,
                          with_crud_columns),
        LAMBDA table_dict :
          IF table_dict.exc # ""
          THEN [exc |-> table_dict.exc, val |-> NoModel]
          ELSE LET name == GetItem(table_dict.val, "__tablename__")
               IN  IF name.kind # "str"
                   THEN [exc |-> "TypeError", val |-> NoModel]
                   ELSE [exc |-> "",
                         val |-> Type(oid, name.str, "Base", table_dict.val)])

(***************************************************************************)
(* ModelStore                                                              *)
(***************************************************************************)
\* mutant: the lookup misses a cached model
contains_model_misses(store, table_name, flat) == FALSE

contains_model(store, table_name, flat) ==
    IF flat THEN HasKey(store.flat_container, table_name)
    ELSE HasKey(store.container, table_name)

get_model(store, table_name, flat) ==
    IF flat THEN GetItem(store.flat_container, table_name)
    ELSE GetItem(store.container, table_name)

set_model(store, table_name, model, flat) ==
    IF flat
    THEN [store EXCEPT !.flat_container = SetItem(@, table_name, model)]
    ELSE [store EXCEPT !.container = SetItem(@, table_name, model)]

\* what a compile request leaves behind: the exception or the returned model,
\* the store afterwards, and the model classes it created
Outcome(exc, val, store, built) ==
    [exc |-> exc, val |-> val, store |-> store, built |-> built]

Built(table_name, flat, model) ==
    [key |-> table_name, flat |-> flat, oid |-> model.oid, name |-> model.name]

\* lines 349-365: the build of a request that found no cached model
BuildModel(oid, table_name, Schema, segmentation_source, table_metadata, with_crud_columns) ==
    Let(split_annotation_schema(Schema),
        LAMBDA split :
          IF split.exc # "" THEN [exc |-> split.exc, val |-> NoModel]
          ELSE LET annotation_columns == split.val[1]
                   segmentation_columns == split.val[2]
               IN  IF Truthy(segmentation_source)
                   THEN create_sqlalchemy_model(oid, table_name,
                            segmentation_columns, segmentation_source,
                            table_metadata, with_crud_columns)
                   ELSE create_sqlalchemy_model(oid, table_name,
                            annotation_columns, None, table_metadata,
                            with_crud_columns))

\* mutant: a failed build resets the store
make_model_from_schema_reset(store, oid, table_name, Schema, segmentation_source, table_metadata, with_crud_columns) ==
    IF ~contains_model(store, table_name, FALSE)
    THEN Let(BuildModel(oid, table_name, Schema, segmentation_source,
                        table_metadata, with_crud_columns),
             LAMBDA model :
               IF model.exc # ""
               THEN Outcome(model.exc, NoModel,
                            [container |-> <<>>, flat_container |-> <<>>], <<>>)
               ELSE Let(set_model(store, table_name, model.val, FALSE),
                        LAMBDA stored :
                          Outcome("", get_model(stored, table_name, FALSE), stored,
                                  <<Built(table_name, FALSE, model.val)>>)))
    ELSE Outcome("", get_model(store, table_name, FALSE), store, <<>>)

make_model_from_schema(store, oid, table_name, Schema, segmentation_source, table_metadata, with_crud_columns) ==
    IF ~contains_model(store, table_name, FALSE)
    THEN Let(BuildModel(oid, table_name, Schema, segmentation_source,
                        table_metadata, with_crud_columns),
             LAMBDA model :
               IF model.exc # ""
               THEN Outcome(model.exc, NoModel, store, <<>>)
               ELSE Let(set_model(store, table_name, model.val, FALSE),
                        LAMBDA stored :
                          Outcome("", get_model(stored, table_name, FALSE), stored,
                                  <<Built(table_name, FALSE, model.val)>>)))
    ELSE Outcome("", get_model(store, table_name, FALSE), store, <<>>)

make_sqlalchemy_model(store, oid, table_name, schema_type, segmentation_source, table_metadata, with_crud_columns) ==
    make_model_from_schema(store, oid, table_name, get_schema(schema_type),
                           segmentation_source, table_metadata, with_crud_columns)

\* lines 406-415: the build of a flat model
BuildFlatModel(oid, table_name, Schema, segmentation_source, table_metadata) ==
    Let(create_flattened_schema(Schema),
        LAMBDA flat_schema :
          Let(create_table_dict(table_name, flat_schema, segmentation_source,
                                table_metadata, FALSE),
              LAMBDA annotation_dict :
                IF annotation_dict.exc # ""
                THEN [exc |-> annotation_dict.exc, val |-> NoModel]
                ELSE [exc |-> "",
                      val |-> Type(oid, table_name, "FlatBase",
                                   annotation_dict.val)]))

make_flat_model_from_schema(store, oid, table_name, Schema, segmentation_source, table_metadata) ==
    IF ~contains_model(store, table_name, TRUE)
    THEN Let(BuildFlatModel(oid, table_name, Schema, segmentation_source,
                            table_metadata),
             LAMBDA model :
               IF model.exc # ""
               THEN Outcome(model.exc, NoModel, store, <<>>)
               ELSE Let(set_model(store, table_name, model.val, TRUE),
                        LAMBDA stored :
                          Outcome("", get_model(stored, table_name, TRUE), stored,
                                  <<Built(table_name, TRUE, model.val)>>)))
    ELSE Outcome("", get_model(store, table_name, TRUE), store, <<>>)

\* mutant: fails on the first unknown schema name and reports it alone
validate_types_first(schemas_and_tables) ==
    LET bad == SelectSeq([i \in 1..Len(schemas_and_tables) |->
                             schemas_and_tables[i][1]],
                         LAMBDA schema_name : schema_name \notin get_types)
    IN  IF bad # <<>>
        THEN [exc |-> "UnknownAnnotationTypeException", bad_types |-> <<Head(bad)>>]
        ELSE [exc |-> "", bad_types |-> <<>>]

\* returns the unknown schema names of the list, in order, as the message
validate_types(schemas_and_tables) ==
    LET all_types == get_types
        bad_types == SelectSeq([i \in 1..Len(schemas_and_tables) |->
                                   schemas_and_tables[i][1]],
                               LAMBDA schema_name : schema_name \notin all_types)
    IN  IF ~(\A i \in 1..Len(schemas_and_tables) :
                schemas_and_tables[i][1] \in all_types)
        THEN [exc |-> "UnknownAnnotationTypeException", bad_types |-> bad_types]
        ELSE [exc |-> "", bad_types |-> <<>>]

\* metadata_dict argument: None (the default) or a dict table name -> metadata
NoMetadataDict == [is_dict |-> FALSE, items |-> EmptyDict]
MetadataDict(items) == [is_dict |-> TRUE, items |-> items]

\* dict.get(key): None for a missing key
DictGet(d, k) == IF HasKey(d, k) THEN GetItem(d, k) ELSE NotADict

DatasetOutcome(exc, dataset_dict, store, built, bad_types) ==
    [exc |-> exc, val |-> dataset_dict, store |-> store, built |-> built,
     bad_types |-> bad_types]

RECURSIVE PairLoop(_, _, _, _, _, _, _, _)
\* lines 475-480: the loop over schemas_and_tables; oid is the next identity
PairLoop(store, oid, dataset_dict, built, pairs, segmentation_source, metadata_dict, with_crud_columns) ==
    IF pairs = <<>> THEN DatasetOutcome("", dataset_dict, store, built, <<>>)
    ELSE LET schema_name == Head(pairs)[1]
             table_name == Head(pairs)[2]
             model_key == table_name
         IN  IF ~metadata_dict.is_dict
             THEN DatasetOutcome("AttributeError", dataset_dict, store, built, <<>>)
             ELSE Let(make_sqlalchemy_model(store, oid, table_name, schema_name,
                          segmentation_source,
                          DictGet(metadata_dict.items, model_key),
                          with_crud_columns),
                      LAMBDA out :
                        IF out.exc # ""
                        THEN DatasetOutcome(out.exc, dataset_dict, out.store, built,
                                            <<>>)
                        ELSE Let([dataset_dict |->
                                      SetItem(dataset_dict, model_key, out.val),
                                  built |-> built \o out.built],
                                 LAMBDA acc :
                                   PairLoop(out.store, oid + Len(out.built),
                                            acc.dataset_dict, acc.built,
                                            Tail(pairs), segmentation_source,
                                            metadata_dict, with_crud_columns)))

make_dataset_models(store, oid, aligned_volume, schemas_and_tables, segmentation_source, include_contacts, metadata_dict, with_crud_columns) ==
    LET valid == validate_types(schemas_and_tables)
    IN  IF valid.exc # ""
        THEN DatasetOutcome(valid.exc, EmptyDict, store, <<>>, valid.bad_types)
        ELSE Let(PairLoop(store, oid, EmptyDict, <<>>, schemas_and_tables,
                          segmentation_source, metadata_dict, with_crud_columns),
                 LAMBDA looped :
                   IF looped.exc # "" \/ ~include_contacts THEN looped
                   ELSE Let(make_model_from_schema(looped.store,
                                oid + Len(looped.built),
                                aligned_volume \o "__contact", Contact, None,
                                NotADict, TRUE),
                            LAMBDA contact_model :
                              IF contact_model.exc # ""
                              THEN DatasetOutcome(contact_model.exc, looped.val,
                                       contact_model.store, looped.built, <<>>)
                              ELSE DatasetOutcome("",
                                       SetItem(looped.val, "contact",
                                               contact_model.val),
                                       contact_model.store,
                                       looped.built \o contact_model.built, <<>>)))

(***************************************************************************)
(* Inputs of the table dict builder                                        *)
(***************************************************************************)
Tables == {"t", "u"}

SegmentationSources == {None, Some(""), Some("s")}

TableMetadatas == {NotADict, MetaDict(None), MetaDict(Some("base"))}

\* field names: a free name, the identity column's, the scratch entry's
FieldNames == {"pt", "id", "reference_table_name"}

\* a mapped plain type, the two specially handled types, an unmapped type
FieldTypes == {"String", "PostGISField", "ReferenceTableField", "DateTime"}

FieldDecls ==
    {Field(t, d, FALSE, m, i) :
        t \in FieldTypes, d \in BOOLEAN, m \in {None, Some(REFERENCE)},
        i \in BOOLEAN}

\* the ordered dicts of at most n declared fields
DeclaredFields(n) ==
    UNION {{[i \in 1..m |-> [key |-> ks[i], field |-> fs[i]]] :
                ks \in {s \in [1..m -> FieldNames] :
                           \A i, j \in 1..m : s[i] = s[j] => i = j},
                fs \in [1..m -> FieldDecls]} : m \in 0..n}

NoTableCall == [args |-> <<>>, result |-> Return(EmptyDict), done |-> FALSE]

NoStore == [container |-> <<>>, flat_container |-> <<>>]

InitTable ==
    /\ sqlalchemy_models = NoStore
    /\ objects = 0
    /\ log = <<>>
    /\ threads = <<>>
    /\ \E table_name \in Tables, fields \in DeclaredFields(MaxFields),
          segmentation_source \in SegmentationSources,
          table_metadata \in TableMetadatas, with_crud_columns \in BOOLEAN :
          table_call = [args |-> [table_name |-> table_name,
                                  Schema |-> [name |-> "Schema", fields |-> fields],
                                  segmentation_source |-> segmentation_source,
                                  table_metadata |-> table_metadata,
                                  with_crud_columns |-> with_crud_columns],
                        result |-> Return(EmptyDict),
                        done |-> FALSE]

CreateTableDict ==
    /\ ~table_call.done
    /\ table_call.args # <<>>
    /\ table_call' =
          [table_call EXCEPT
              !.result = create_table_dict(table_call.args.table_name,
                                           table_call.args.Schema,
                                           table_call.args.segmentation_source,
                                           table_call.args.table_metadata,
                                           table_call.args.with_crud_columns),
              !.done = TRUE]
    /\ UNCHANGED <<sqlalchemy_models, objects, log, threads>>

(***************************************************************************)
(* Sequential compile requests against the process-wide store              *)
(***************************************************************************)
Schemas == {CellTypeLocal, ReferenceAnnotation, PlainReference}

RequestSources == {None, Some("s")}

\* with_crud_columns of the requests: the default
CrudChoices == {TRUE}

Args(table_name, Schema, segmentation_source, table_metadata, with_crud_columns) ==
    [table_name |-> table_name, Schema |-> Schema,
     segmentation_source |-> segmentation_source,
     table_metadata |-> table_metadata, with_crud_columns |-> with_crud_columns]

\* the record of a completed single-model request
Entry(op, args, out) ==
    [op |-> op, args |-> args, exc |-> out.exc, value |-> out.val,
     dataset_dict |-> EmptyDict, bad_types |-> <<>>, built |-> out.built]

NoThreads == <<>>

Init ==
    /\ sqlalchemy_models = NoStore
    /\ objects = 0
    /\ log = <<>>
    /\ table_call = NoTableCall
    /\ threads = NoThreads

\* one call of make_model_from_schema
MakeModelFromSchema ==
    \E table_name \in Tables, Schema \in Schemas,
       segmentation_source \in RequestSources,
       table_metadata \in TableMetadatas, with_crud_columns \in CrudChoices :
        \E out \in {make_model_from_schema(sqlalchemy_models, objects + 1,
                       table_name, Schema, segmentation_source, table_metadata,
                       with_crud_columns)} :
            /\ sqlalchemy_models' = out.store
            /\ objects' = objects + Len(out.built)
            /\ log' = Append(log, Entry("make_model_from_schema",
                          Args(table_name, Schema, segmentation_source,
                               table_metadata, with_crud_columns), out))
            /\ UNCHANGED <<table_call, threads>>

\* one call of make_flat_model_from_schema
MakeFlatModelFromSchema ==
    \E table_name \in Tables, Schema \in Schemas,
       segmentation_source \in RequestSources,
       table_metadata \in TableMetadatas :
        \E out \in {make_flat_model_from_schema(sqlalchemy_models, objects + 1,
                       table_name, Schema, segmentation_source, table_metadata)} :
            /\ sqlalchemy_models' = out.store
            /\ objects' = objects + Len(out.built)
            /\ log' = Append(log, Entry("make_flat_model_from_schema",
                          Args(table_name, Schema, segmentation_source,
                               table_metadata, FALSE), out))
            /\ UNCHANGED <<table_call, threads>>

(***************************************************************************)
(* The dataset compiler, called once on a store that is empty or holds     *)
(* the model of one earlier request                                        *)
(***************************************************************************)
AlignedVolumes == {"v"}

\* two registered schema types and two unknown names
SchemaNames == {"cell_type_local", "reference", "bogus", "junk"}

SchemasAndTables(n) ==
    UNION {[1..m -> SchemaNames \X Tables] : m \in 0..n}

MetadataDicts ==
    {NoMetadataDict, MetadataDict(EmptyDict),
     MetadataDict(<<[key |-> "t", val |-> MetaDict(Some("base"))],
                    [key |-> "u", val |-> MetaDict(Some("base"))]>>)}

DatasetArgs(aligned_volume, schemas_and_tables, segmentation_source, include_contacts, metadata_dict, with_crud_columns) ==
    [aligned_volume |-> aligned_volume, schemas_and_tables |-> schemas_and_tables,
     segmentation_source |-> segmentation_source,
     include_contacts |-> include_contacts, metadata_dict |-> metadata_dict,
     with_crud_columns |-> with_crud_columns]

\* one call of make_dataset_models
MakeDatasetModels ==
    \E aligned_volume \in AlignedVolumes,
       schemas_and_tables \in SchemasAndTables(MaxPairs),
       segmentation_source \in RequestSources, include_contacts \in BOOLEAN,
       metadata_dict \in MetadataDicts, with_crud_columns \in CrudChoices :
        \E out \in {make_dataset_models(sqlalchemy_models, objects + 1,
                       aligned_volume, schemas_and_tables, segmentation_source,
                       include_contacts, metadata_dict, with_crud_columns)} :
            /\ sqlalchemy_models' = out.store
            /\ objects' = objects + Len(out.built)
            /\ log' = Append(log,
                        [op |-> "make_dataset_models",
                         args |-> DatasetArgs(aligned_volume, schemas_and_tables,
                                      segmentation_source, include_contacts,
                                      metadata_dict, with_crud_columns),
                         exc |-> out.exc, value |-> NoModel,
                         dataset_dict |-> out.val, bad_types |-> out.bad_types,
                         built |-> out.built])
            /\ UNCHANGED <<table_call, threads>>

DatasetCalled == \E i \in 1..Len(log) : log[i].op = "make_dataset_models"

NextDataset ==
    \/ log = <<>> /\ MakeModelFromSchema
    \/ log = <<>> /\ MakeFlatModelFromSchema
    \/ ~DatasetCalled /\ MakeDatasetModels

SpecDataset == Init /\ [][NextDataset]_vars

Next ==
    \/ Len(log) < MaxCalls /\ MakeModelFromSchema
    \/ Len(log) < MaxCalls /\ MakeFlatModelFromSchema

Spec == Init /\ [][Next]_vars

(***************************************************************************)
(* Concurrent callers of make_model_from_schema.  The store takes no lock: *)
(* a caller can be preempted between the statements of lines 347-368.      *)
(* log records the model classes built, in the order of their creation.    *)
(***************************************************************************)
Threads == 1..MaxThreads

Caller(args) ==
    [pc |-> "contains_model", args |-> args, model |-> NoModel, exc |-> "",
     result |-> NoModel]

InitConc ==
    /\ sqlalchemy_models = NoStore
    /\ objects = 0
    /\ log = <<>>
    /\ table_call = NoTableCall
    /\ threads \in [Threads ->
           {Caller(Args(table_name, Schema, segmentation_source, table_metadata,
                        with_crud_columns)) :
               table_name \in Tables, Schema \in Schemas,
               segmentation_source \in RequestSources,
               table_metadata \in TableMetadatas,
               with_crud_columns \in CrudChoices}]

\* line 347: if not sqlalchemy_models.contains_model(table_name)
ContainsModel(t) ==
    /\ threads[t].pc = "contains_model"
    /\ threads' = [threads EXCEPT ![t].pc =
                      IF ~contains_model(sqlalchemy_models,
                                         threads[t].args.table_name, FALSE)
                      THEN "build" ELSE "get_model"]
    /\ UNCHANGED <<sqlalchemy_models, objects, log, table_call>>

\* lines 349-365: split the schema and create the model class
Build(t) ==
    /\ threads[t].pc = "build"
    /\ \E model \in {BuildModel(objects + 1, threads[t].args.table_name,
                                threads[t].args.Schema,
                                threads[t].args.segmentation_source,
                                threads[t].args.table_metadata,
                                threads[t].args.with_crud_columns)} :
          IF model.exc # ""
          THEN /\ threads' = [threads EXCEPT ![t].pc = "raised",
                                             ![t].exc = model.exc]
               /\ UNCHANGED <<objects, log>>
          ELSE /\ threads' = [threads EXCEPT ![t].pc = "set_model",
                                             ![t].model = model.val]
               /\ objects' = objects + 1
               /\ log' = Append(log, Built(threads[t].args.table_name, FALSE,
                                           model.val))
    /\ UNCHANGED <<sqlalchemy_models, table_call>>

\* line 366: sqlalchemy_models.set_model(table_name, model)
SetModel(t) ==
    /\ threads[t].pc = "set_model"
    /\ sqlalchemy_models' = set_model(sqlalchemy_models,
                                      threads[t].args.table_name,
                                      threads[t].model, FALSE)
    /\ threads' = [threads EXCEPT ![t].pc = "get_model"]
    /\ UNCHANGED <<objects, log, table_call>>

\* line 368: return sqlalchemy_models.get_model(table_name)
GetModel(t) ==
    /\ threads[t].pc = "get_model"
    /\ threads' = [threads EXCEPT
                      ![t].pc = "done",
                      ![t].result = get_model(sqlalchemy_models,
                                              threads[t].args.table_name, FALSE)]
    /\ UNCHANGED <<sqlalchemy_models, objects, log, table_call>>

NextConc ==
    \E t \in Threads :
        \/ ContainsModel(t)
        \/ Build(t)
        \/ SetModel(t)
        \/ GetModel(t)

SpecConc == InitConc /\ [][NextConc]_vars

NextTable == CreateTableDict

SpecTable == InitTable /\ [][NextTable]_vars

(***************************************************************************)
(* Properties                                                              *)
(***************************************************************************)
Last(seq) == seq[Len(seq)]

SingleOps == {"make_model_from_schema", "make_flat_model_from_schema"}

IsFlat(entry) == entry.op = "make_flat_model_from_schema"

\* the request returned a model without building one
CacheHit(entry) == entry.exc = "" /\ entry.built = <<>>

TableName(dict) == GetItem(dict, "__tablename__")

\* C1: two requests for the same table name and kind with identical
\* arguments return the same model object; the second builds nothing and
\* the store's entry stays that object.
C1_SameCachedModel ==
    \A i, j \in 1..Len(log) :
        (/\ i < j
         /\ log[i].op \in SingleOps
         /\ log[j].op = log[i].op
         /\ log[j].args = log[i].args
         /\ log[i].exc = "")
        => /\ log[j].exc = ""
           /\ log[j].value = log[i].value
           /\ log[j].built = <<>>
           /\ get_model(sqlalchemy_models, log[i].args.table_name, IsFlat(log[i]))
                = log[i].value

\* a successful request has been repeated with the same arguments
C1_Witness ==
    \E i, j \in 1..Len(log) :
        /\ i < j
        /\ log[i].op \in SingleOps
        /\ log[j].op = log[i].op
        /\ log[j].args = log[i].args
        /\ log[i].exc = ""
        /\ log[i].built # <<>>
        /\ log[j].exc = ""

\* C2: concurrent callers for the same table name: the builder runs once
\* for that key and all callers receive the same model object.
C2_OneBuildPerKey ==
    /\ \A table_name \in Tables :
          Cardinality({i \in 1..Len(log) : log[i].key = table_name}) <= 1
    /\ \A t1, t2 \in Threads :
          (/\ threads[t1].pc = "done"
           /\ threads[t2].pc = "done"
           /\ threads[t1].args.table_name = threads[t2].args.table_name)
          => threads[t1].result = threads[t2].result

\* C3: a request for T with source S returns the model whose table name is
\* T__S, a request without a source the model whose table name is T,
\* whatever was requested before.
C3_SourceDecidesModel ==
    \A i \in 1..Len(log) :
        (log[i].op = "make_model_from_schema" /\ log[i].exc = "")
        => TableName(log[i].value.dict).str =
              IF Truthy(log[i].args.segmentation_source)
              THEN log[i].args.table_name \o "__"
                      \o log[i].args.segmentation_source[1]
              ELSE log[i].args.table_name

TableArgs == table_call.args

TableResult == table_call.result

\* C4: with a non-empty source S the table dict is named T__S, its id is a
\* primary key with a foreign key to T.id and its polymorphic identity is
\* T__S; without a source the name and identity are T and the id is a
\* primary key without foreign key.
C4_TableIdentity ==
    (table_call.done /\ TableResult.exc = "")
    => LET dict == TableResult.val
           T == TableArgs.table_name
           S == TableArgs.segmentation_source
           id == GetItem(dict, "id")
           name == IF Truthy(S) THEN T \o "__" \o S[1] ELSE T
       IN  (Truthy(S) \/ S = None)
           => /\ TableName(dict) = Str(name)
              /\ GetItem(dict, "__mapper_args__") = MapperArgs(name)
              /\ id.kind = "Column"
              /\ id.primary_key
              /\ id.foreign_key = IF Truthy(S) THEN Some(T \o ".id") ELSE None

\* the fields of the schema half that the request builds columns for
BuiltFields(entry) ==
    IF IsFlat(entry) THEN create_flattened_schema(entry.args.Schema).fields
    ELSE LET split == split_annotation_schema(entry.args.Schema).val
         IN  IF Truthy(entry.args.segmentation_source) THEN split[2].fields
             ELSE split[1].fields

LacksReferenceTable(table_metadata) ==
    ~table_metadata.is_dict \/ table_metadata.reference_table = None

\* C5: a request that builds columns for a schema with a ReferenceId field,
\* given table metadata without reference_table (or no dict), fails with
\* InvalidTableMetaDataException and leaves no entry for the table name.
C5_MissingReferenceMetadataFails ==
    log # <<>>
    => LET entry == Last(log)
       IN  (/\ entry.op \in SingleOps
            /\ ~CacheHit(entry)
            /\ \E i \in 1..Len(BuiltFields(entry)) :
                  /\ ~BuiltFields(entry)[i].field.drop_column
                  /\ BuiltFields(entry)[i].field.type = "ReferenceTableField"
            /\ LacksReferenceTable(entry.args.table_metadata))
           => /\ entry.exc = "InvalidTableMetaDataException"
              /\ ~contains_model(sqlalchemy_models, entry.args.table_name,
                                 IsFlat(entry))

\* the call that the step completes, if it completes one
Completes(op) == Len(log') = Len(log) + 1 /\ Last(log').op = op

UnknownTypes(schemas_and_tables) ==
    {schemas_and_tables[i][1] : i \in 1..Len(schemas_and_tables)} \ get_types

\* C6: a dataset call given unknown schema names fails with
\* UnknownAnnotationTypeException naming every one of them, before any
\* model is built: the store is as it was.
C6_AllUnknownTypesNamed ==
    [][(/\ Completes("make_dataset_models")
        /\ UnknownTypes(Last(log').args.schemas_and_tables) # {})
       => /\ Last(log').exc = "UnknownAnnotationTypeException"
          /\ {Last(log').bad_types[i] : i \in 1..Len(Last(log').bad_types)}
                = UnknownTypes(Last(log').args.schemas_and_tables)
          /\ Last(log').built = <<>>
          /\ objects' = objects
          /\ sqlalchemy_models' = sqlalchemy_models]_vars

\* a dataset call naming two unknown types has failed on a store with a model
C6_Witness ==
    /\ Len(log) = 2
    /\ log[1].built # <<>>
    /\ Last(log).op = "make_dataset_models"
    /\ Cardinality(UnknownTypes(Last(log).args.schemas_and_tables)) = 2
    /\ Last(log).exc = "UnknownAnnotationTypeException"
    /\ sqlalchemy_models # NoStore

DeclaredField(i) == TableArgs.Schema.fields[i]

RetainedFields ==
    {i \in 1..Len(TableArgs.Schema.fields) : ~DeclaredField(i).field.drop_column}

DroppedFields ==
    {i \in 1..Len(TableArgs.Schema.fields) : DeclaredField(i).field.drop_column}

\* the keys create_table_dict sets before the field loop
HeaderKeys ==
    {"__tablename__", "id", "__mapper_args__"}
        \cup (IF TableArgs.with_crud_columns
              THEN {"created", "deleted", "superceded_id"} ELSE {})

\* C7: on success the columns made from fields are exactly the fields not
\* dropped; a retained field of a type outside the type map fails the
\* build (with InvalidSchemaField when nothing else can fail) rather than
\* being skipped.
C7_RetainedFieldsAreColumns ==
    table_call.done
    => /\ TableResult.exc = ""
          => /\ \A i \in RetainedFields :
                   /\ HasKey(TableResult.val, DeclaredField(i).key)
                   /\ GetItem(TableResult.val, DeclaredField(i).key).kind = "Column"
                   /\ DeclaredField(i).field.type \in DOMAIN field_column_map
                   /\ GetItem(TableResult.val, DeclaredField(i).key).type
                         = field_column_map[DeclaredField(i).field.type]
             /\ \A i \in DroppedFields :
                   HasKey(TableResult.val, DeclaredField(i).key)
                   => DeclaredField(i).key \in HeaderKeys
             /\ \A k \in Keys(TableResult.val) \ HeaderKeys :
                   GetItem(TableResult.val, k).kind = "Column"
                   => \E i \in RetainedFields : DeclaredField(i).key = k
       /\ (\E i \in RetainedFields :
              DeclaredField(i).field.type \notin DOMAIN field_column_map)
          => /\ TableResult.exc # ""
             /\ (\A i \in RetainedFields :
                    /\ DeclaredField(i).field.metadata = None
                    /\ DeclaredField(i).field.type # "ReferenceTableField")
                => TableResult.exc = "InvalidSchemaField"

\* C8: a retained field whose name is already a key of the table dict
\* fails the build instead of replacing that entry.
C8_CollisionFails ==
    (/\ table_call.done
     /\ \E i \in RetainedFields : DeclaredField(i).key \in HeaderKeys)
    => TableResult.exc # ""

IsPrefix(before, after) ==
    /\ Len(before) <= Len(after)
    /\ \A i \in 1..Len(before) : after[i] = before[i]

\* C9: a failing request leaves every entry the store held before it, in
\* both mappings, and the models built for earlier pairs of the same
\* dataset call stay cached.
C9_FailureKeepsRegistry ==
    [][(Len(log') = Len(log) + 1 /\ Last(log').exc # "")
       => /\ IsPrefix(sqlalchemy_models.container, sqlalchemy_models'.container)
          /\ IsPrefix(sqlalchemy_models.flat_container,
                      sqlalchemy_models'.flat_container)
          /\ \A k \in 1..Len(Last(log').built) :
                /\ contains_model(sqlalchemy_models', Last(log').built[k].key,
                                  Last(log').built[k].flat)
                /\ get_model(sqlalchemy_models', Last(log').built[k].key,
                             Last(log').built[k].flat).oid
                      = Last(log').built[k].oid]_vars

\* a dataset call has failed at a later pair, on a store that held a model
C9_Witness ==
    /\ Len(log) = 2
    /\ log[1].built # <<>>
    /\ Last(log).op = "make_dataset_models"
    /\ Last(log).exc \in {"InvalidTableMetaDataException"}
    /\ Last(log).built # <<>>

\* a segmentation split: its id column refers to the base table
IsSegmentationModel(model) == GetItem(model.dict, "id").foreign_key # None

\* C10: whenever a dataset call builds a segmentation model for T, a base
\* model for T was built and cached before it.
C10_BaseBeforeSegmentation ==
    \A j \in 1..Len(log) :
        log[j].op = "make_dataset_models"
        => \A k \in 1..Len(log[j].built) :
              LET segmentation == log[j].built[k]
              IN  (/\ contains_model(sqlalchemy_models, segmentation.key, FALSE)
                   /\ IsSegmentationModel(get_model(sqlalchemy_models,
                                                    segmentation.key, FALSE)))
                  => \E j2 \in 1..Len(log) : \E k2 \in 1..Len(log[j2].built) :
                        /\ log[j2].built[k2].key = segmentation.key
                        /\ ~log[j2].built[k2].flat
                        /\ log[j2].built[k2].name = segmentation.key
                        /\ log[j2].built[k2].oid < segmentation.oid

\* the scratch entry of validate_metadata: the recorded reference target,
\* a string under the key reference_table_name
HasScratchEntry(dict) ==
    /\ HasKey(dict, "reference_table_name")
    /\ GetItem(dict, "reference_table_name").kind = "str"

\* the foreign key of a column that consumed the recorded reference target
ReferenceTarget ==
    Some(TableArgs.table_metadata.reference_table[1] \o ".id")

\* C11: a successful create_table_dict returns a table dict without the
\* scratch entry reference_table_name; every retained field of metadata kind
\* reference has a column with a foreign key to <reference_table>.id, and no
\* other retained field's column has that foreign key.
C11_ScratchEntryConsumed ==
    (table_call.done /\ TableResult.exc = "")
    => /\ ~HasScratchEntry(TableResult.val)
       /\ \A i \in RetainedFields :
             LET column == GetItem(TableResult.val, DeclaredField(i).key)
             IN  HasKey(TableResult.val, DeclaredField(i).key)
                 => IF DeclaredField(i).field.metadata = Some(REFERENCE)
                    THEN /\ column.kind = "Column"
                         /\ column.foreign_key = ReferenceTarget
                    ELSE column.kind = "Column"
                         => \/ TableArgs.table_metadata.reference_table = None
                            \/ column.foreign_key # ReferenceTarget

====
